---- MODULE Spec2Model ----
(***************************************************************************)
(* The CrateDB output plugin (plugins/outputs/cratedb/cratedb.go): the     *)
(* value encoder escapeValue/escapeObject/escapeString, the statement      *)
(* builder insertSQL and the adapter operations Connect, Write and Close.  *)
(*                                                                         *)
(* Text is a sequence of one-character strings, so that escaping and the   *)
(* byte order used by sort.Strings are computed, not assumed.  64-bit      *)
(* integers are sequences of 16-bit limbs, most significant first, so that *)
(* the uint64 -> int64 conversion and the decimal rendering are computed   *)
(* at the real width.                                                      *)
(***************************************************************************)
EXTENDS Integers, Sequences, FiniteSets, TLC

VARIABLES
  Table,        \* CrateDB.Table (configuration, fixed after construction)
  TableCreate,  \* CrateDB.TableCreate (configuration, fixed after construction)
  Local,        \* time.Local: the zone offset of the process, in seconds
  DB,           \* CrateDB.DB: 0 is the nil handle, n > 0 the handle opened by the n-th Connect
  closed,       \* the handles on which Close has been called
  execs,        \* how many statements were handed to ExecContext, and how many succeeded
  stmt,         \* the last statement handed to ExecContext
  ret,          \* what the last call of Connect, Write or Close returned
  panicked,     \* a nil-pointer dereference has ended the process
  calls,        \* the calls made so far: [connect, write, close]
  metrics,      \* the batch given to the last insertSQL
  sql,          \* what the last insertSQL returned
  val,          \* the value given to escapeValue
  enc           \* what escapeValue returned for val

vars == <<Table, TableCreate, Local, DB, closed, execs, stmt, ret, panicked, calls,
          metrics, sql, val, enc>>

configVars == <<Table, TableCreate, Local>>
adapterVars == <<DB, closed, execs, stmt, ret, panicked, calls>>

-----------------------------------------------------------------------------
(* Bounds of the model. *)

\* the longest text given to escapeValue on its own
MaxLen == 3
\* the most keys of a map given to escapeValue on its own
MaxKeys == 3
\* the longest batch given to insertSQL on its own
MaxBatch == 2
\* the longest batch given to Write
MaxWriteBatch == 2
\* the most calls of the adapter's operations in one run
MaxCalls == 3

-----------------------------------------------------------------------------
(* Text: characters, byte order, strings.Join, strings.Replace.            *)

\* the printable ASCII characters in byte order, from 32 (space) to 126,
\* without the grave accent (96), which no text of the model holds
Ascii ==
  << " ", "!", "\"", "#", "$", "%", "&", "'", "(", ")", "*", "+", ",", "-", ".", "/",
     "0", "1", "2", "3", "4", "5", "6", "7", "8", "9", ":", ";", "<", "=", ">", "?",
     "@", "A", "B", "C", "D", "E", "F", "G", "H", "I", "J", "K", "L", "M", "N", "O",
     "P", "Q", "R", "S", "T", "U", "V", "W", "X", "Y", "Z", "[", "\\", "]", "^", "_",
     "a", "b", "c", "d", "e", "f", "g", "h", "i", "j", "k", "l", "m", "n", "o",
     "p", "q", "r", "s", "t", "u", "v", "w", "x", "y", "z", "{", "|", "}", "~" >>
\* the byte value of a character
Code(c) ==
  IF c = "\n" THEN 10
  ELSE LET i == CHOOSE j \in 1..Len(Ascii) : Ascii[j] = c
       IN IF i <= 64 THEN 31 + i ELSE 32 + i

\* a < b in the byte-wise lexicographic order that Go's string < uses
RECURSIVE Less(_, _)
Less(a, b) ==
  IF b = <<>> THEN FALSE
  ELSE IF a = <<>> THEN TRUE
  ELSE IF Head(a) = Head(b) THEN Less(Tail(a), Tail(b))
  ELSE Code(Head(a)) < Code(Head(b))

\* sort.Strings: ascending order (insertion of the head into the sorted tail)
RECURSIVE Insert(_, _)
Insert(k, sorted) ==
  IF sorted = <<>> THEN <<k>>
  ELSE IF Less(Head(sorted), k) THEN <<Head(sorted)>> \o Insert(k, Tail(sorted))
  ELSE <<k>> \o sorted

\* the sort left out: the keys in the order the map yields them
SortStringsSkipped(keys) == keys

RECURSIVE SortStrings(_)
SortStrings(keys) ==
  IF keys = <<>> THEN <<>> ELSE Insert(Head(keys), SortStrings(Tail(keys)))

\* strings.Join(elems, sep)
RECURSIVE Join(_, _)
Join(elems, sep) ==
  IF elems = <<>> THEN <<>>
  ELSE IF Len(elems) = 1 THEN elems[1]
  ELSE elems[1] \o sep \o Join(Tail(elems), sep)

HasPrefix(s, p) == Len(s) >= Len(p) /\ SubSeq(s, 1, Len(p)) = p

\* strings.Replace(s, old, new, -1) for a non-empty old
RECURSIVE Replace(_, _, _)
Replace(s, old, new) ==
  IF s = <<>> THEN <<>>
  ELSE IF HasPrefix(s, old)
    THEN new \o Replace(SubSeq(s, Len(old) + 1, Len(s)), old, new)
  ELSE <<Head(s)>> \o Replace(Tail(s), old, new)

\* escapeString without the replacement: the text between the quotes as it is
escapeStringUnescaped(s, quote) == quote \o s \o quote

\* escapeString wraps s in quote and doubles every quote inside s
escapeString(s, quote) == quote \o Replace(s, quote, quote \o quote) \o quote

-----------------------------------------------------------------------------
(* Integers: fixed-width bit patterns and strconv's decimal rendering.     *)

Limb == 65535 + 1

Digits == <<"0", "1", "2", "3", "4", "5", "6", "7", "8", "9">>

IsZero(bits) == \A i \in 1..Len(bits) : bits[i] = 0

\* the sign bit of a two's-complement pattern
SignBit(bits) == bits[1] >= Limb \div 2

\* bits + 1 modulo 2^width
RECURSIVE Incr(_)
Incr(bits) ==
  IF bits = <<>> THEN <<>>
  ELSE LET n == Len(bits) IN
       IF bits[n] + 1 < Limb THEN SubSeq(bits, 1, n - 1) \o <<bits[n] + 1>>
       ELSE Incr(SubSeq(bits, 1, n - 1)) \o <<0>>

\* -bits modulo 2^width: complement, then add one
Negate(bits) == Incr([i \in 1..Len(bits) |-> Limb - 1 - bits[i]])

\* bits divided by ten: [q |-> quotient, r |-> remainder]
RECURSIVE DivTen(_, _)
DivTen(bits, carry) ==
  IF bits = <<>> THEN [q |-> <<>>, r |-> carry]
  ELSE LET cur  == carry * Limb + Head(bits)
           rest == DivTen(Tail(bits), cur % 10)
       IN [q |-> <<cur \div 10>> \o rest.q, r |-> rest.r]

\* strconv.FormatUint(bits, 10)
RECURSIVE FormatUint(_)
FormatUint(bits) ==
  LET d == DivTen(bits, 0) IN
  IF IsZero(d.q) THEN <<Digits[d.r + 1]>>
  ELSE FormatUint(d.q) \o <<Digits[d.r + 1]>>

\* strconv.FormatInt(bits, 10): a minus sign and the magnitude when negative
FormatInt(bits) ==
  IF SignBit(bits) THEN <<"-">> \o FormatUint(Negate(bits)) ELSE FormatUint(bits)

-----------------------------------------------------------------------------
(* Floating point: a float is held as the shortest decimal that            *)
(* identifies it, [neg, int, frac], with 1e-4 <= |x| < 1e21 or x = 0, the  *)
(* range in which %v prints no exponent.                                   *)

RECURSIVE FormatNat(_)
FormatNat(n) ==
  IF n < 10 THEN <<Digits[n + 1]>> ELSE FormatNat(n \div 10) \o <<Digits[(n % 10) + 1]>>

FormatFloat(f) ==
  (IF f.neg THEN <<"-">> ELSE <<>>)
  \o FormatNat(f.int)
  \o (IF f.frac = <<>> THEN <<>> ELSE <<".">> \o [i \in 1..Len(f.frac) |-> Digits[f.frac[i] + 1]])

-----------------------------------------------------------------------------
(* time.Time: [sec |-> Unix seconds, nsec, off |-> zone offset in seconds] *)
(* and Time.Format for the layout 2006-01-02T15:04:05.999-0700.            *)

\* Time.In(loc): the same instant, shown in the zone loc
In(t, loc) == [t EXCEPT !.off = loc]

\* n in decimal, zero-padded to w digits
RECURSIVE Pad(_, _)
Pad(n, w) == IF w = 0 THEN <<>> ELSE Pad(n \div 10, w - 1) \o <<Digits[(n % 10) + 1]>>

\* the civil date of a day number counted from 1970-01-01
CivilDate(days) ==
  LET z   == days + 719468
      era == z \div 146097
      doe == z - era * 146097
      yoe == (doe - doe \div 1460 + doe \div 36524 - doe \div 146096) \div 365
      doy == doe - (365 * yoe + yoe \div 4 - yoe \div 100)
      mp  == (5 * doy + 2) \div 153
      m   == IF mp < 10 THEN mp + 3 ELSE mp - 9
  IN [year  |-> yoe + era * 400 + (IF m <= 2 THEN 1 ELSE 0),
      month |-> m,
      day   |-> doy - (153 * mp + 2) \div 5 + 1]

\* the layout element .999: milliseconds, trailing zeros and an empty fraction dropped
Fraction(nsec) ==
  LET ms == nsec \div 1000000 IN
  IF ms = 0 THEN <<>>
  ELSE IF ms % 100 = 0 THEN <<".">> \o Pad(ms \div 100, 1)
  ELSE IF ms % 10 = 0 THEN <<".">> \o Pad(ms \div 10, 2)
  ELSE <<".">> \o Pad(ms, 3)

\* the layout element -0700
Zone(off) ==
  LET a == IF off < 0 THEN 0 - off ELSE off IN
  <<IF off < 0 THEN "-" ELSE "+">> \o Pad(a \div 3600, 2) \o Pad((a % 3600) \div 60, 2)

\* t.Format("2006-01-02T15:04:05.999-0700")
Format(t) ==
  LET local == t.sec + t.off
      date  == CivilDate(local \div 86400)
      secs  == local % 86400
  IN Pad(date.year, 4) \o <<"-">> \o Pad(date.month, 2) \o <<"-">> \o Pad(date.day, 2)
     \o <<"T">> \o Pad(secs \div 3600, 2) \o <<":">> \o Pad((secs % 3600) \div 60, 2)
     \o <<":">> \o Pad(secs % 60, 2) \o Fraction(t.nsec) \o Zone(t.off)

-----------------------------------------------------------------------------
(* Values (interface{}): a record whose type field is the dynamic type.    *)
(* A map is held as the sequence of its entries <<key, value>>, in the     *)
(* order in which a range loop over it would yield them.                   *)

Str(s) == [type |-> "string", s |-> s]

\* the nil error, and the error of escapeValue's default case
NoError == [kind |-> "nil", detail |-> ""]
UnexpectedType(v) == [kind |-> "unexpected type", detail |-> v.type]

Ok(s) == [s |-> s, err |-> NoError]
Fail(e) == [s |-> <<>>, err |-> e]

\* m[k]
Lookup(m, k) == m[CHOOSE i \in 1..Len(m) : m[i][1] = k][2]

\* convertMap copies a map[string]string into a map[string]interface{}
convertMap(m) == [i \in 1..Len(m) |-> <<m[i][1], Str(m[i][2])>>]

RECURSIVE escapeValue(_), escapeObject(_), escapePairs(_, _)

\* the loop of escapeObject over the sorted keys: the pairs, or the first error
escapePairs(m, keys) ==
  IF keys = <<>> THEN [pairs |-> <<>>, err |-> NoError]
  ELSE LET k == Head(keys)
           v == escapeValue(Lookup(m, k))
       IN IF v.err # NoError THEN [pairs |-> <<>>, err |-> v.err]
          ELSE LET rest == escapePairs(m, Tail(keys))
               IN IF rest.err # NoError THEN rest
                  ELSE [pairs |-> <<escapeString(k, <<"\"">>) \o <<" ", "=", " ">> \o v.s>>
                                   \o rest.pairs,
                        err |-> NoError]

escapeObject(m) ==
  LET keys == SortStrings([i \in 1..Len(m) |-> m[i][1]])
      r    == escapePairs(m, keys)
  IN IF r.err # NoError THEN Fail(r.err)
     ELSE Ok(<<"{">> \o Join(r.pairs, <<",", " ">>) \o <<"}">>)

\* the earlier revision of escapeValue (second copy in the file), which has
\* the unsigned types in its number case and prints them with fmt.Sprint
escapeValueUnsigned(v) ==
  CASE v.type = "string" -> Ok(escapeString(v.s, <<"'">>))
    [] v.type \in {"int", "int32", "int64"} -> Ok(FormatInt(v.bits))
    [] v.type \in {"uint", "uint32", "uint64"} -> Ok(FormatUint(v.bits))
    [] v.type \in {"float32", "float64"} -> Ok(FormatFloat(v))
    [] v.type = "time.Time" -> escapeValue(Str(Format(v)))
    [] v.type = "map[string]string" -> escapeObject(convertMap(v.entries))
    [] v.type = "map[string]interface {}" -> escapeObject(v.entries)
    [] OTHER -> Fail(UnexpectedType(v))

\* escapeValue with a case for booleans
escapeValueBool(v) ==
  CASE v.type = "string" -> Ok(escapeString(v.s, <<"'">>))
    [] v.type \in {"int", "int32", "int64"} -> Ok(FormatInt(v.bits))
    [] v.type \in {"float32", "float64"} -> Ok(FormatFloat(v))
    [] v.type = "bool" -> Ok(IF v.b THEN <<"t", "r", "u", "e">> ELSE <<"f", "a", "l", "s", "e">>)
    [] v.type = "time.Time" -> escapeValue(Str(Format(v)))
    [] v.type = "map[string]string" -> escapeObject(convertMap(v.entries))
    [] v.type = "map[string]interface {}" -> escapeObject(v.entries)
    [] OTHER -> Fail(UnexpectedType(v))

escapeValue(v) ==
  CASE v.type = "string" -> Ok(escapeString(v.s, <<"'">>))
    [] v.type \in {"int", "int32", "int64"} -> Ok(FormatInt(v.bits))
    [] v.type \in {"float32", "float64"} -> Ok(FormatFloat(v))
    [] v.type = "time.Time" -> escapeValue(Str(Format(v)))
    [] v.type = "map[string]string" -> escapeObject(convertMap(v.entries))
    [] v.type = "map[string]interface {}" -> escapeObject(v.entries)
    [] OTHER -> Fail(UnexpectedType(v))

-----------------------------------------------------------------------------
(* The values the encoder is run on.                                       *)

Alphabet == {"a", "'", "\""}

\* every text over Alphabet of at most n characters
Texts(n) == UNION {[1..k -> Alphabet] : k \in 0..n}

LimbValues == {0, 1, Limb \div 2 - 1, Limb \div 2, Limb - 1}

Integer(type, bits) == [type |-> type, bits |-> bits]

\* 64-bit and 32-bit patterns around zero, the sign bit and the limb carries
Ints ==
  {Integer(t, b) : t \in {"int", "int64", "uint", "uint64"}, b \in [1..4 -> LimbValues]}
  \cup {Integer(t, b) : t \in {"int32", "uint32"}, b \in [1..2 -> LimbValues]}

Float(type, neg, int, frac) == [type |-> type, neg |-> neg, int |-> int, frac |-> frac]

Floats ==
  {Float(t, n, i, f) : t \in {"float32", "float64"}, n \in BOOLEAN,
                       i \in {0, 42, 1000000}, f \in {<<>>, <<5>>, <<0, 2, 5>>}}

Time(sec, nsec, off) == [type |-> "time.Time", sec |-> sec, nsec |-> nsec, off |-> off]

\* 2023-01-02T03:04:05Z and 2024-02-29T23:59:59Z
Instants == {1672628645, 1709251199}
Zones == {0, 3600, 0 - 25200}

Times == {Time(t, n, z) : t \in Instants, n \in {0, 678000000, 670999999, 5000000}, z \in Zones}

Bool(b) == [type |-> "bool", b |-> b]
Nil == [type |-> "<nil>"]

Map(entries) == [type |-> "map[string]interface {}", entries |-> entries]
StringMap(entries) == [type |-> "map[string]string", entries |-> entries]

Keys == {<<"a">>, <<"a", "b">>, <<"B">>, <<"\"">>}

\* every enumeration of every map with at most n of the keys and values among vs
Entries(keys, vs, n) ==
  {e \in UNION {[1..k -> keys \X vs] : k \in 0..n} :
     \A i, j \in 1..Len(e) : i # j => e[i][1] # e[j][1]}

\* a nested map, out of key order at both levels
InnerStrings == StringMap(<< <<<<"z">>, <<"1">>>>, <<<<"y">>, <<"'">>>> >>)
Inner == Map(<< <<<<"b">>, Str(<<"a", "'">>)>>, <<<<"a">>, InnerStrings>> >>)
\* a nested map with a value the encoder has no case for
InnerBool == Map(<< <<<<"a">>, Integer("int64", <<0, 0, 0, 7>>)>>, <<<<"B">>, Bool(TRUE)>> >>)

MapValues ==
  {Str(<<"a", "'">>), Integer("int64", <<65535, 65535, 65535, 65535>>), Inner, InnerBool,
   Integer("uint64", <<0, 0, 0, 7>>)}

Maps ==
  {Map(e) : e \in Entries(Keys, MapValues, MaxKeys)}
  \cup {StringMap(e) : e \in Entries(Keys, Texts(1), MaxKeys)}

EncInputs ==
  {Str(t) : t \in Texts(MaxLen)} \cup Ints \cup Floats \cup Times \cup Maps
  \cup {Bool(TRUE), Bool(FALSE), Nil}

-----------------------------------------------------------------------------
(* The encoder on its own: one value, encoded once.                        *)

Pending == [done |-> FALSE, s |-> <<>>, err |-> NoError]
Returned(r) == [done |-> TRUE, s |-> r.s, err |-> r.err]

\* no statement handed to ExecContext yet
NoStatement == [text |-> <<>>, handle |-> 0, err |-> NoError]

\* what a call returned; returned is FALSE when it panicked instead
NotCalled == [op |-> "none", returned |-> FALSE, err |-> NoError]

\* the adapter as outputs.Add constructs it: no handle, nothing executed
AdapterInit ==
  /\ DB = 0
  /\ closed = {}
  /\ execs = [create |-> 0, createOk |-> 0, insert |-> 0, insertOk |-> 0]
  /\ stmt = NoStatement
  /\ ret = NotCalled
  /\ panicked = FALSE
  /\ calls = [connect |-> 0, write |-> 0, close |-> 0]

InitEnc ==
  /\ Table = <<"m">> /\ TableCreate = FALSE /\ Local = 0
  /\ AdapterInit
  /\ metrics = <<>>
  /\ sql = Pending
  /\ val \in EncInputs
  /\ enc = Pending

Encode ==
  /\ ~enc.done
  /\ enc' = Returned(escapeValue(val))
  /\ UNCHANGED <<configVars, adapterVars, metrics, sql, val>>

NextEnc == Encode

SpecEnc == InitEnc /\ [][NextEnc]_vars

-----------------------------------------------------------------------------
(* The statement builder.  A metric is [hash, time, name, tags, fields]:   *)
(* what HashID(), Time(), Name(), Tags() and Fields() return.              *)

\* the text before the table name in insertSQL's statement
InsertInto ==
  <<"I", "N", "S", "E", "R", "T", " ", "I", "N", "T", "O", " ">>
\* the text between the table name and the rows in insertSQL's statement
ColumnsValues ==
  <<" ", "(", "\"", "h", "a", "s", "h", "_", "i", "d", "\"", ",", " ", "\"",
    "t", "i", "m", "e", "s", "t", "a", "m", "p", "\"", ",", " ", "\"", "n",
    "a", "m", "e", "\"", ",", " ", "\"", "t", "a", "g", "s", "\"", ",", " ",
    "\"", "f", "i", "e", "l", "d", "s", "\"", ")", "\n", "V", "A", "L", "U",
    "E", "S", "\n">>

\* the conversion with saturation instead of wrap-around
ToInt64Clamped(u) ==
  [type |-> "int64",
   bits |-> IF SignBit(u.bits) THEN <<Limb \div 2 - 1, Limb - 1, Limb - 1, Limb - 1>>
            ELSE u.bits]

\* the Go conversion int64(u) of a uint64: the same bit pattern, read as signed
ToInt64(u) == [type |-> "int64", bits |-> u.bits]

\* the columns with tags and fields in the wrong order
ColumnsSwapped(m, loc) ==
  <<ToInt64(Integer("uint64", m.hash)), In(m.time, loc), Str(m.name),
    Map(m.fields), StringMap(m.tags)>>

\* cols: the five column values of a metric
Columns(m, loc) ==
  <<ToInt64(Integer("uint64", m.hash)), In(m.time, loc), Str(m.name),
    StringMap(m.tags), Map(m.fields)>>

\* the inner loop of insertSQL: the escaped columns, or the first error
RECURSIVE escapeCols(_)
escapeCols(cols) ==
  IF cols = <<>> THEN [escaped |-> <<>>, err |-> NoError]
  ELSE LET e == escapeValue(Head(cols))
       IN IF e.err # NoError THEN [escaped |-> <<>>, err |-> e.err]
          ELSE LET rest == escapeCols(Tail(cols))
               IN IF rest.err # NoError THEN rest
                  ELSE [escaped |-> <<e.s>> \o rest.escaped, err |-> NoError]

\* the outer loop that goes on after a column failed to encode
RECURSIVE insertRowsSkipping(_, _)
insertRowsSkipping(ms, loc) ==
  IF ms = <<>> THEN [rows |-> <<>>, err |-> NoError]
  ELSE LET c    == escapeCols(Columns(Head(ms), loc))
           rest == insertRowsSkipping(Tail(ms), loc)
       IN IF c.err # NoError THEN rest
          ELSE [rows |-> <<(<<"(">> \o Join(c.escaped, <<",", " ">>) \o <<")">>)>> \o rest.rows,
                err  |-> rest.err]

\* the outer loop of insertSQL: the rows, or the first error
RECURSIVE insertRows(_, _)
insertRows(ms, loc) ==
  IF ms = <<>> THEN [rows |-> <<>>, err |-> NoError]
  ELSE LET c == escapeCols(Columns(Head(ms), loc))
       IN IF c.err # NoError THEN [rows |-> <<>>, err |-> c.err]
          ELSE LET rest == insertRows(Tail(ms), loc)
               IN IF rest.err # NoError THEN rest
                  ELSE [rows |-> <<(<<"(">> \o Join(c.escaped, <<",", " ">>) \o <<")">>)>>
                                  \o rest.rows,
                        err  |-> NoError]

insertSQL(table, ms, loc) ==
  LET r == insertRows(ms, loc)
  IN IF r.err # NoError THEN Fail(r.err)
     ELSE Ok(InsertInto \o table \o ColumnsValues
             \o Join(r.rows, <<" ", ",", "\n">>) \o <<";">>)

-----------------------------------------------------------------------------
(* The batches the statement builder is run on.                            *)

Metric(hash, time, name, tags, fields) ==
  [hash |-> hash, time |-> time, name |-> name, tags |-> tags, fields |-> fields]

\* 14305102049502225714, the identity of the comment in insertSQL
BigHash == <<50821, 61061, 47178, 58674>>

Cpu ==
  Metric(BigHash, Time(1672628645, 678000000, 0), <<"c", "p", "u">>,
         << <<<<"h">>, <<"a", "'", "s">>>> >>,
         << <<<<"u">>, Float("float64", FALSE, 42, <<5>>)>> >>)

\* tags and fields out of key order, a nested map, a quote in the name
Nested ==
  Metric(<<0, 0, 0, 1>>, Time(1709251199, 0, 3600), <<"a", "'", "b">>,
         << <<<<"b">>, <<"'">>>>, <<<<"a">>, <<>>>> >>,
         << <<<<"z">>, Inner>>, <<<<"\"">>, Integer("int64", <<65535, 65535, 65535, 65535>>)>> >>)

\* no tags, no fields
Bare == Metric(<<0, 0, 0, 0>>, Time(1672628645, 0, 0), <<"m">>, <<>>, <<>>)

\* a boolean field
WithBool == [Cpu EXCEPT !.fields = << <<<<"a">>, Str(<<"x">>)>>, <<<<"u", "p">>, Bool(TRUE)>> >>]
\* a boolean two levels down
WithDeepBool == [Nested EXCEPT !.fields = << <<<<"z">>, Inner>>, <<<<"a">>, InnerBool>> >>]
\* an unsigned field
WithUint == [Bare EXCEPT !.fields = << <<<<"n">>, Integer("uint64", <<0, 0, 0, 7>>)>> >>]

CoreMetrics == {Cpu, Nested, Bare, WithBool, WithDeepBool, WithUint}

\* one value of every dynamic type a field can hold
FieldValues ==
  {Str(<<"'">>), Integer("int", <<0, 0, 0, 7>>), Integer("int32", <<65535, 65535>>),
   Integer("int64", <<32768, 0, 0, 0>>), Integer("uint", <<0, 0, 0, 7>>),
   Integer("uint32", <<0, 7>>), Integer("uint64", <<65535, 0, 0, 7>>),
   Float("float32", TRUE, 0, <<5>>), Float("float64", FALSE, 42, <<>>),
   Time(1672628645, 5000000, 0), InnerStrings, Inner, InnerBool,
   Bool(TRUE), Bool(FALSE), Nil, [type |-> "[]string", elems |-> <<<<"a">>>>]}

Hashes == [1..4 -> LimbValues] \cup {BigHash}

WideMetrics ==
  {[Cpu EXCEPT !.hash = h] : h \in Hashes}
  \cup {[Cpu EXCEPT !.fields = << <<<<"k">>, v>> >>] : v \in FieldValues}

Tables == {<<"m", "e", "t", "r", "i", "c", "s">>, <<"m", "\"", "t">>}

\* every batch of at most n of the metrics ms
Batches(ms, n) == UNION {[1..k -> ms] : k \in 0..n}

SQLInputs ==
  Batches(CoreMetrics, MaxBatch)
  \cup {<<m>> : m \in WideMetrics}
  \cup {<<Nested, m>> : m \in WideMetrics}

-----------------------------------------------------------------------------
(* The statement builder on its own: one batch, built once.                *)

InitSQL ==
  /\ Table \in Tables /\ TableCreate = FALSE /\ Local \in Zones
  /\ AdapterInit
  /\ metrics \in SQLInputs
  /\ sql = Pending
  /\ val = Nil
  /\ enc = Pending

BuildInsert ==
  /\ ~sql.done
  /\ sql' = Returned(insertSQL(Table, metrics, Local))
  /\ UNCHANGED <<configVars, adapterVars, metrics, val, enc>>

NextSQL == BuildInsert

SpecSQL == InitSQL /\ [][NextSQL]_vars

-----------------------------------------------------------------------------
(* The adapter: Connect, Write and Close on a CrateDB value, against a     *)
(* database whose sql.Open and ExecContext may fail.                       *)

\* the text before the table name in Connect's statement
CreateTable ==
  <<"\n", "C", "R", "E", "A", "T", "E", " ", "T", "A", "B", "L", "E", " ",
    "I", "F", " ", "N", "O", "T", " ", "E", "X", "I", "S", "T", "S", " ">>
\* the text after the table name in Connect's statement
CreateTableColumns ==
  <<" ", "(", "\n", "\t", "\"", "h", "a", "s", "h", "_", "i", "d", "\"", " ",
    "L", "O", "N", "G", " ", "I", "N", "D", "E", "X", " ", "O", "F", "F",
    ",", "\n", "\t", "\"", "t", "i", "m", "e", "s", "t", "a", "m", "p", "\"",
    " ", "T", "I", "M", "E", "S", "T", "A", "M", "P", ",", "\n", "\t", "\"",
    "n", "a", "m", "e", "\"", " ", "S", "T", "R", "I", "N", "G", ",", "\n",
    "\t", "\"", "t", "a", "g", "s", "\"", " ", "O", "B", "J", "E", "C", "T",
    "(", "D", "Y", "N", "A", "M", "I", "C", ")", ",", "\n", "\t", "\"", "f",
    "i", "e", "l", "d", "s", "\"", " ", "O", "B", "J", "E", "C", "T", "(",
    "D", "Y", "N", "A", "M", "I", "C", ")", ",", "\n", " ", " ", "\"", "d",
    "a", "y", "\"", " ", "T", "I", "M", "E", "S", "T", "A", "M", "P", " ",
    "G", "E", "N", "E", "R", "A", "T", "E", "D", " ", "A", "L", "W", "A",
    "Y", "S", " ", "A", "S", " ", "d", "a", "t", "e", "_", "t", "r", "u",
    "n", "c", "(", "'", "d", "a", "y", "'", ",", " ", "\"", "t", "i", "m",
    "e", "s", "t", "a", "m", "p", "\"", ")", ",", "\n", "\t", "P", "R", "I",
    "M", "A", "R", "Y", " ", "K", "E", "Y", " ", "(", "\"", "t", "i", "m",
    "e", "s", "t", "a", "m", "p", "\"", ",", " ", "\"", "h", "a", "s", "h",
    "_", "i", "d", "\"", ",", "\"", "d", "a", "y", "\"", ")", "\n", ")", "P",
    "A", "R", "T", "I", "T", "I", "O", "N", "E", "D", " ", "B", "Y", "(",
    "\"", "d", "a", "y", "\"", ")", ";", "\n">>

\* what sql.Open and ExecContext can return besides nil
OpenError == [kind |-> "open", detail |-> "sql: unknown driver"]
ExecErrors ==
  {[kind |-> "exec", detail |-> "rejected"],
   [kind |-> "exec", detail |-> "context deadline exceeded"]}
ClosedError == [kind |-> "exec", detail |-> "sql: database is closed"]

Statement(text, handle, err) == [text |-> text, handle |-> handle, err |-> err]

Return(op, err) == [op |-> op, returned |-> TRUE, err |-> err]
Panic(op) == [op |-> op, returned |-> FALSE, err |-> NoError]

Total == calls.connect + calls.write + calls.close

\* ExecContext on handle h: a closed handle refuses, an open one answers e
Outcome(h, e) == IF h \in closed THEN ClosedError ELSE e

\* Connect that stores the handle before the table is created
ConnectStoringFirst(openErr) ==
  LET db == calls.connect + 1 IN
  /\ ~panicked /\ Total < MaxCalls
  /\ calls' = [calls EXCEPT !.connect = @ + 1]
  /\ IF openErr # NoError
       THEN /\ ret' = Return("Connect", openErr)
            /\ UNCHANGED <<DB, execs, stmt>>
       ELSE /\ DB' = db
            /\ IF TableCreate
                 THEN \E execErr \in {NoError} \cup ExecErrors :
                      /\ stmt' = Statement(CreateTable \o Table \o CreateTableColumns, db, execErr)
                      /\ execs' = [execs EXCEPT !.create = @ + 1,
                                                !.createOk = @ + (IF execErr = NoError THEN 1 ELSE 0)]
                      /\ ret' = Return("Connect", execErr)
                 ELSE /\ ret' = Return("Connect", NoError)
                      /\ UNCHANGED <<execs, stmt>>
  /\ UNCHANGED <<configVars, closed, panicked, metrics, sql, val, enc>>

\* Connect, with openErr what sql.Open returns and execErr what ExecContext returns
Connect(openErr) ==
  LET db == calls.connect + 1 IN
  /\ ~panicked /\ Total < MaxCalls
  /\ calls' = [calls EXCEPT !.connect = @ + 1]
  /\ IF openErr # NoError
       THEN /\ ret' = Return("Connect", openErr)
            /\ UNCHANGED <<DB, execs, stmt>>
       ELSE IF TableCreate
         THEN \E execErr \in {NoError} \cup ExecErrors :
              /\ stmt' = Statement(CreateTable \o Table \o CreateTableColumns, db, execErr)
              /\ execs' = [execs EXCEPT !.create = @ + 1,
                                        !.createOk = @ + (IF execErr = NoError THEN 1 ELSE 0)]
              /\ ret' = Return("Connect", execErr)
              /\ DB' = IF execErr = NoError THEN db ELSE DB
         ELSE /\ DB' = db
              /\ ret' = Return("Connect", NoError)
              /\ UNCHANGED <<execs, stmt>>
  /\ UNCHANGED <<configVars, closed, panicked, metrics, sql, val, enc>>

\* Write that executes the statement a second time when the first try failed
WriteRetrying(ms) ==
  LET built == insertSQL(Table, ms, Local) IN
  /\ ~panicked /\ Total < MaxCalls
  /\ calls' = [calls EXCEPT !.write = @ + 1]
  /\ metrics' = ms
  /\ sql' = Returned(built)
  /\ IF built.err # NoError
       THEN /\ ret' = Return("Write", built.err)
            /\ UNCHANGED <<execs, stmt, panicked>>
       ELSE IF DB = 0
         THEN /\ panicked' = TRUE
              /\ ret' = Panic("Write")
              /\ UNCHANGED <<execs, stmt>>
         ELSE \E execErr \in {NoError} \cup ExecErrors :
              LET e == Outcome(DB, execErr) IN
              /\ stmt' = Statement(built.s, DB, e)
              /\ execs' = [execs EXCEPT !.insert = @ + (IF e = NoError THEN 1 ELSE 2),
                                        !.insertOk = @ + (IF e = NoError THEN 1 ELSE 0)]
              /\ ret' = Return("Write", e)
              /\ UNCHANGED panicked
  /\ UNCHANGED <<configVars, DB, closed, val, enc>>

\* Write, with execErr what ExecContext returns on an open handle
Write(ms) ==
  LET built == insertSQL(Table, ms, Local) IN
  /\ ~panicked /\ Total < MaxCalls
  /\ calls' = [calls EXCEPT !.write = @ + 1]
  /\ metrics' = ms
  /\ sql' = Returned(built)
  /\ IF built.err # NoError
       THEN /\ ret' = Return("Write", built.err)
            /\ UNCHANGED <<execs, stmt, panicked>>
       ELSE IF DB = 0
         \* c.DB.ExecContext on the nil handle
         THEN /\ panicked' = TRUE
              /\ ret' = Panic("Write")
              /\ UNCHANGED <<execs, stmt>>
         ELSE \E execErr \in {NoError} \cup ExecErrors :
              LET e == Outcome(DB, execErr) IN
              /\ stmt' = Statement(built.s, DB, e)
              /\ execs' = [execs EXCEPT !.insert = @ + 1,
                                        !.insertOk = @ + (IF e = NoError THEN 1 ELSE 0)]
              /\ ret' = Return("Write", e)
              /\ UNCHANGED panicked
  /\ UNCHANGED <<configVars, DB, closed, val, enc>>

Close ==
  /\ ~panicked /\ Total < MaxCalls
  /\ calls' = [calls EXCEPT !.close = @ + 1]
  /\ IF DB = 0
       \* c.DB.Close on the nil handle
       THEN /\ panicked' = TRUE
            /\ ret' = Panic("Close")
            /\ UNCHANGED closed
       ELSE /\ closed' = closed \cup {DB}
            /\ ret' = Return("Close", NoError)
            /\ UNCHANGED panicked
  /\ UNCHANGED <<configVars, DB, execs, stmt, metrics, sql, val, enc>>

\* the batches handed to Write
WriteMetrics == {Cpu, WithDeepBool}
WriteBatches == Batches(WriteMetrics, MaxWriteBatch)

Init ==
  /\ Table = <<"m", "\"", "t">> /\ TableCreate \in BOOLEAN /\ Local = 3600
  /\ AdapterInit
  /\ metrics = <<>>
  /\ sql = Pending
  /\ val = Nil
  /\ enc = Pending

Next ==
  \/ \E openErr \in {NoError, OpenError} : Connect(openErr)
  \/ \E ms \in WriteBatches : Write(ms)
  \/ Close

Spec == Init /\ [][Next]_vars

-----------------------------------------------------------------------------
(* What the claims are measured against: the escaping rule, a reader of    *)
(* quoted literals, a reader of decimal text and the object syntax, each   *)
(* written without the encoder's own operators.                            *)

\* s with every occurrence of the character q written twice
RECURSIVE Doubled(_, _)
Doubled(s, q) ==
  IF s = <<>> THEN <<>>
  ELSE (IF Head(s) = q THEN <<q, q>> ELSE <<Head(s)>>) \o Doubled(Tail(s), q)

\* the text between the outer quotes with every doubled quote read as one;
\* ok is FALSE when a quote stands alone
RECURSIVE Collapse(_)
Collapse(body) ==
  IF body = <<>> THEN [ok |-> TRUE, s |-> <<>>]
  ELSE IF Head(body) = "'"
    THEN IF Len(body) >= 2 /\ body[2] = "'"
           THEN LET r == Collapse(SubSeq(body, 3, Len(body)))
                IN [ok |-> r.ok, s |-> <<"'">> \o r.s]
           ELSE [ok |-> FALSE, s |-> <<>>]
  ELSE LET r == Collapse(Tail(body)) IN [ok |-> r.ok, s |-> <<Head(body)>> \o r.s]

\* a single-quoted SQL literal read back
Unquote(lit) ==
  IF Len(lit) >= 2 /\ lit[1] = "'" /\ lit[Len(lit)] = "'"
    THEN Collapse(SubSeq(lit, 2, Len(lit) - 1))
    ELSE [ok |-> FALSE, s |-> <<>>]

IsDigit(c) == \E i \in 1..10 : Digits[i] = c
DigitValue(c) == (CHOOSE i \in 1..10 : Digits[i] = c) - 1

\* digits without a leading zero, or the single digit 0
IsDecimal(ds) ==
  /\ ds # <<>>
  /\ \A i \in 1..Len(ds) : IsDigit(ds[i])
  /\ Len(ds) > 1 => ds[1] # "0"

\* bits * 10 + carry, modulo 2^width
RECURSIVE TimesTenPlus(_, _)
TimesTenPlus(bits, carry) ==
  IF bits = <<>> THEN <<>>
  ELSE LET n   == Len(bits)
           cur == bits[n] * 10 + carry
       IN TimesTenPlus(SubSeq(bits, 1, n - 1), cur \div Limb) \o <<cur % Limb>>

\* the number written by the digits ds, in n limbs
RECURSIVE ParseDecimal(_, _)
ParseDecimal(ds, n) ==
  IF ds = <<>> THEN [i \in 1..n |-> 0]
  ELSE TimesTenPlus(ParseDecimal(SubSeq(ds, 1, Len(ds) - 1), n), DigitValue(ds[Len(ds)]))

\* a + b + carry, modulo 2^width
RECURSIVE Sum(_, _, _)
Sum(a, b, carry) ==
  IF a = <<>> THEN <<>>
  ELSE LET n   == Len(a)
           cur == a[n] + b[n] + carry
       IN Sum(SubSeq(a, 1, n - 1), SubSeq(b, 1, n - 1), cur \div Limb) \o <<cur % Limb>>

\* text is the minimal decimal text of bits read as an unsigned number
IsUnsignedDecimalOf(text, bits) ==
  /\ IsDecimal(text)
  /\ ParseDecimal(text, Len(bits) + 1) = <<0>> \o bits

\* text is the minimal decimal text of bits read as a two's-complement number:
\* of u when the top bit is clear, of u - 2^width (a minus sign and the
\* magnitude 2^width - u) when it is set
IsSignedDecimalOf(text, bits) ==
  IF SignBit(bits)
    THEN /\ text # <<>> /\ Head(text) = "-"
         /\ IsDecimal(Tail(text))
         /\ Sum(ParseDecimal(Tail(text), Len(bits) + 1), <<0>> \o bits, 0)
              = <<1>> \o [i \in 1..Len(bits) |-> 0]
    ELSE IsUnsignedDecimalOf(text, bits)

SignedTypes == {"int", "int32", "int64"}
UnsignedTypes == {"uint", "uint32", "uint64"}
MapTypes == {"map[string]string", "map[string]interface {}"}

\* the dynamic types escapeValue is documented to encode
RECURSIVE Encodable(_)
Encodable(v) ==
  \/ v.type \in {"string", "float32", "float64", "time.Time", "map[string]string"}
  \/ v.type \in SignedTypes
  \/ /\ v.type = "map[string]interface {}"
     /\ \A i \in 1..Len(v.entries) : Encodable(v.entries[i][2])

\* the entries of a map of either kind, as values
EntriesOf(v) ==
  IF v.type = "map[string]string"
    THEN [i \in 1..Len(v.entries) |-> <<v.entries[i][1], Str(v.entries[i][2])>>]
    ELSE v.entries

KeySet(m) == {m[i][1] : i \in 1..Len(m)}

\* the object syntax of the specification, by the set of keys: least key first
RECURSIVE ObjectText(_), PairTexts(_, _)
PairTexts(m, ks) ==
  IF ks = {} THEN <<>>
  ELSE LET k == CHOOSE x \in ks : \A y \in ks \ {x} : Less(x, y)
       IN <<(<<"\"">> \o Doubled(k, "\"") \o <<"\"">>) \o <<" ", "=", " ">>
              \o ObjectText(Lookup(m, k))>>
          \o PairTexts(m, ks \ {k})

ObjectText(v) ==
  IF v.type \in MapTypes
    THEN <<"{">> \o Join(PairTexts(EntriesOf(v), KeySet(EntriesOf(v))), <<",", " ">>) \o <<"}">>
    ELSE escapeValue(v).s

\* the map v enumerated in the order p
Reordered(v, p) == [v EXCEPT !.entries = [i \in 1..Len(v.entries) |-> v.entries[p[i]]]]

\* where sep occurs in s
Cuts(s, sep) ==
  {i \in 1..(Len(s) - Len(sep) + 1) : SubSeq(s, i, i + Len(sep) - 1) = sep}

\* s cut at every occurrence of sep (occurrences of sep do not overlap)
Split(s, sep) ==
  LET cuts   == Cuts(s, sep)
      cut(k) == CHOOSE c \in cuts : Cardinality({d \in cuts : d < c}) = k - 1
      n      == Cardinality(cuts)
  IN [k \in 1..(n + 1) |->
        SubSeq(s, IF k = 1 THEN 1 ELSE cut(k - 1) + Len(sep),
                  IF k = n + 1 THEN Len(s) ELSE cut(k) - 1)]

\* s up to its first occurrence of the character c
Before(s, c) ==
  LET at == {i \in 1..Len(s) : s[i] = c}
  IN IF at = {} THEN s
     ELSE SubSeq(s, 1, (CHOOSE i \in at : \A j \in at : i <= j) - 1)

\* the row tuples of a statement: the text between the header and the final
\* semicolon, cut at the row separator
RowsOf(text, table) ==
  LET header == InsertInto \o table \o ColumnsValues
  IN Split(SubSeq(text, Len(header) + 1, Len(text) - 1), <<" ", ",", "\n">>)

\* the first column of a row tuple: what stands between ( and the first comma
FirstColumn(row) == Before(Tail(row), ",")

\* the rows, each followed by sep except the last
RECURSIVE Separated(_, _)
Separated(rows, sep) ==
  IF Len(rows) = 1 THEN rows[1] ELSE rows[1] \o sep \o Separated(Tail(rows), sep)

\* the row tuple of a metric: its five columns in order, joined by ", "
RowText(m, loc) ==
  <<"(">> \o escapeValue(Integer("int64", m.hash)).s
  \o <<",", " ">> \o escapeValue(Time(m.time.sec, m.time.nsec, loc)).s
  \o <<",", " ">> \o escapeValue(Str(m.name)).s
  \o <<",", " ">> \o ObjectText(StringMap(m.tags))
  \o <<",", " ">> \o ObjectText(Map(m.fields))
  \o <<")">>

\* the statement with its rows joined by sep
StatementText(table, ms, loc, sep) ==
  InsertInto \o table \o ColumnsValues
  \o Separated([i \in 1..Len(ms) |-> RowText(ms[i], loc)], sep) \o <<";">>

\* v and every value nested in it
RECURSIVE ValuesIn(_)
ValuesIn(v) ==
  {v} \cup (IF v.type = "map[string]interface {}"
              THEN UNION {ValuesIn(v.entries[i][2]) : i \in 1..Len(v.entries)}
              ELSE {})

\* every value held by the fields of the batch, at any depth
FieldValuesOf(ms) == UNION {ValuesIn(Map(ms[i].fields)) : i \in 1..Len(ms)}

\* the batch holds a value outside the documented types
HasUnsupported(ms) == \E i \in 1..Len(ms) : ~Encodable(Map(ms[i].fields))

\* the types of the values of the batch that are outside the documented types
UnsupportedTypes(ms) ==
  {v.type : v \in {x \in FieldValuesOf(ms) : x.type \notin MapTypes /\ ~Encodable(x)}}

IsCreateTable(text) ==
  text = CreateTable \o Table \o CreateTableColumns

-----------------------------------------------------------------------------
(* Claims about the encoder (SpecEnc).                                     *)

\* C2: escapeValue of a text s is a single quote, s with every single quote
\* doubled and no other character changed, and a single quote; reading that
\* literal back (outer quotes stripped, doubled quotes collapsed) gives s.
C2_EscapeRoundTrip ==
  (enc.done /\ val.type = "string") =>
    /\ enc.err = NoError
    /\ enc.s = <<"'">> \o Doubled(val.s, "'") \o <<"'">>
    /\ Unquote(enc.s) = [ok |-> TRUE, s |-> val.s]

\* C2 witness: a text with a quote and another character has been encoded
C2_Witness ==
  /\ enc.done /\ val.type = "string" /\ enc.err = NoError
  /\ \E i, j \in 1..Len(val.s) : val.s[i] = "'" /\ val.s[j] = "a"

\* C3: escapeObject writes the pairs in ascending key order at every level,
\* keys double-quoted with embedded double quotes doubled, whatever order the
\* map is enumerated in; every enumeration of the same content gives the
\* same text.
C3_ObjectOrderIndependent ==
  (enc.done /\ val.type \in MapTypes /\ Encodable(val)) =>
    /\ enc.err = NoError
    /\ enc.s = ObjectText(val)
    /\ \A p \in Permutations(1..Len(val.entries)) :
         escapeValue(Reordered(val, p)) = [s |-> enc.s, err |-> NoError]

\* C3 witness: a map enumerated out of key order, holding a nested map that
\* is itself out of key order, has been encoded
C3_Witness ==
  /\ enc.done /\ val.type = "map[string]interface {}" /\ Encodable(val)
  /\ enc.err = NoError
  /\ \E i, j \in 1..Len(val.entries) :
       /\ i < j /\ Less(val.entries[j][1], val.entries[i][1])
       /\ val.entries[i][2] = Inner

\* C7 as stated: every integer, signed or unsigned, is encoded without error
\* as the decimal text of its bits read as a two's-complement number.
C7_EveryIntegerEncoded ==
  (enc.done /\ val.type \in SignedTypes \cup UnsignedTypes) =>
    /\ enc.err = NoError
    /\ IsSignedDecimalOf(enc.s, val.bits)

\* C7 as amended: a signed integer is encoded as its minimal decimal text;
\* an unsigned integer is refused with the unexpected-type error and no text,
\* and so is a map that holds one.
C7_SignedEncodedUnsignedRefused ==
  /\ (enc.done /\ val.type \in SignedTypes) =>
       enc.err = NoError /\ IsSignedDecimalOf(enc.s, val.bits)
  /\ (enc.done /\ val.type \in UnsignedTypes) =>
       enc.err = UnexpectedType(val) /\ enc.s = <<>>
  /\ (enc.done /\ val.type = "map[string]interface {}"
        /\ \E i \in 1..Len(val.entries) : val.entries[i][2].type \in UnsignedTypes) =>
       enc.err.kind = "unexpected type" /\ enc.s = <<>>

\* C7 witness: an unsigned 64-bit value with the top bit set has been refused
C7_Witness ==
  /\ enc.done /\ val.type = "uint64" /\ SignBit(val.bits)
  /\ enc.err = UnexpectedType(val)

-----------------------------------------------------------------------------
(* Claims about the statement builder (SpecSQL).                           *)

\* C4: the first column of every row is the decimal text of the metric's
\* identity read as a signed 64-bit number: of h below 2^63, of h - 2^64 (a
\* negative number) from 2^63 on; never clamped, never printed unsigned.
C4_IdentityAsSigned ==
  (sql.done /\ sql.err = NoError /\ metrics # <<>>) =>
    LET rows == RowsOf(sql.s, Table) IN
    /\ Len(rows) = Len(metrics)
    /\ \A i \in 1..Len(rows) :
         /\ Head(rows[i]) = "("
         /\ IsSignedDecimalOf(FirstColumn(rows[i]), metrics[i].hash)

\* C4 witness: a statement was built for a metric whose identity is 2^63 or
\* more, and its first column is a negative decimal
C4_Witness ==
  /\ sql.done /\ sql.err = NoError
  /\ \E i \in 1..Len(metrics) :
       /\ SignBit(metrics[i].hash) /\ metrics[i].hash # BigHash
       /\ Head(FirstColumn(RowsOf(sql.s, Table)[i])) = "-"

\* C5 as stated: the rows are joined by exactly a comma and a newline.
C5_RowsJoinedByCommaNewline ==
  (sql.done /\ Len(metrics) >= 1 /\ ~HasUnsupported(metrics)) =>
    /\ sql.err = NoError
    /\ sql.s = StatementText(Table, metrics, Local, <<",", "\n">>)

\* C5 as amended: for N >= 1 encodable records the statement is INSERT INTO,
\* the table name verbatim, the column list, VALUES on a line of its own, the
\* N row tuples in input order, each the five encoded columns joined by ", "
\* in parentheses, the tuples joined by a space, a comma and a newline, and a
\* final semicolon.
C5_RowsJoinedBySpaceCommaNewline ==
  (sql.done /\ Len(metrics) >= 1 /\ ~HasUnsupported(metrics)) =>
    /\ sql.err = NoError
    /\ sql.s = StatementText(Table, metrics, Local, <<" ", ",", "\n">>)

\* C5 witness: a statement of two rows was built
C5_Witness ==
  /\ sql.done /\ sql.err = NoError /\ Len(metrics) = 2
  /\ metrics[1] # metrics[2]

\* C10: escapeValue fails exactly on a value that is not a string, int, int32,
\* int64, float32, float64, timestamp or map, or is a map holding such a value
\* at some depth; a boolean is refused, and one record with a boolean field
\* makes insertSQL fail for the whole batch.
C10_ClosedSetOfTypes ==
  sql.done =>
    /\ (sql.err # NoError) <=> HasUnsupported(metrics)
    /\ \A v \in FieldValuesOf(metrics) :
         /\ (escapeValue(v).err # NoError) <=> ~Encodable(v)
         /\ v.type = "bool" => escapeValue(v) = Fail(UnexpectedType(v))
    /\ (\E v \in FieldValuesOf(metrics) : v.type = "bool") =>
         sql.err.kind = "unexpected type" /\ sql.s = <<>>

\* C10 witness: a batch of an encodable record and a record with a boolean
\* field was refused
C10_Witness ==
  /\ sql.done /\ Len(metrics) = 2
  /\ metrics[1] = Nested
  /\ \E i \in 1..Len(metrics[2].fields) : metrics[2].fields[i][2] = Bool(TRUE)
  /\ sql.err = UnexpectedType(Bool(TRUE)) /\ sql.s = <<>>

-----------------------------------------------------------------------------
(* Claims about the adapter (Spec).                                        *)

WriteStep == calls'.write = calls.write + 1
ConnectStep == calls'.connect = calls.connect + 1

\* C1: insertSQL on an empty batch returns an error and no text, so Write
\* never hands a statement with no row to the database.
C1_EmptyBatchRefused ==
  /\ (sql.done /\ metrics = <<>> /\ ~panicked) => (sql.err # NoError /\ sql.s = <<>>)
  /\ stmt.text # InsertInto \o Table \o ColumnsValues \o <<";">>

\* C6: when a record of the batch holds a value of an unsupported type, at
\* any position and depth, insertSQL returns the unexpected-type error naming
\* that type and no text; Write returns that error, executes nothing and the
\* process goes on.
C6_FailFastAllOrNothing ==
  [][(WriteStep /\ HasUnsupported(metrics')) =>
       /\ sql'.err.kind = "unexpected type"
       /\ sql'.err.detail \in UnsupportedTypes(metrics')
       /\ sql'.s = <<>>
       /\ ret' = Return("Write", sql'.err)
       /\ ~panicked'
       /\ execs' = execs /\ stmt' = stmt]_vars

\* C6 witness: Write has refused a batch whose second record holds a boolean
\* two levels down, on an adapter that has no handle
C6_Witness ==
  /\ ret.op = "Write" /\ ret.returned /\ DB = 0
  /\ metrics = <<Cpu, WithDeepBool>>
  /\ sql.err = UnexpectedType(Bool(TRUE))

\* C8: a Write executes at most one statement and never retries: none when
\* insertSQL failed, whose error it returns; otherwise one, whose error it
\* returns unchanged; it returns nil only when that execution succeeded.
\* The statements executed never outnumber the Write calls.
C8_OneExecutionPerWrite ==
  /\ [](execs.insert <= calls.write)
  /\ [][WriteStep =>
          /\ execs'.insert <= execs.insert + 1
          /\ execs'.create = execs.create
          /\ sql'.err # NoError =>
               ret' = Return("Write", sql'.err) /\ execs' = execs /\ stmt' = stmt
          /\ (sql'.err = NoError /\ ~panicked') =>
               /\ execs'.insert = execs.insert + 1
               /\ stmt'.text = sql'.s
               /\ ret' = Return("Write", stmt'.err)
          /\ (ret'.returned /\ ret'.err = NoError) =>
               stmt'.err = NoError /\ execs'.insertOk = execs.insertOk + 1]_vars

\* C8 witness: a Write whose one execution failed has returned that error
C8_Witness ==
  /\ ret.op = "Write" /\ ret.returned /\ ret.err \in ExecErrors
  /\ stmt.err = ret.err
  /\ calls.write = 1 /\ execs.insert = 1

\* C9: with auto-create, the handle is stored only after CREATE TABLE
\* succeeded; a Connect whose open or CREATE TABLE failed returns that error
\* and does not store a handle, so no INSERT is executed before a CREATE
\* TABLE succeeded; without auto-create, Connect executes nothing.
C9_CreateBeforeWrite ==
  /\ []((TableCreate /\ (DB # 0 \/ execs.insert > 0)) => execs.createOk >= 1)
  /\ [](~TableCreate => execs.create = 0)
  /\ [][ConnectStep =>
          /\ ret'.returned
          /\ ret'.err # NoError =>
               /\ DB' = DB
               /\ \/ ret'.err = OpenError /\ execs' = execs /\ stmt' = stmt
                  \/ /\ TableCreate /\ execs'.create = execs.create + 1
                     /\ execs'.createOk = execs.createOk
                     /\ IsCreateTable(stmt'.text) /\ stmt'.err = ret'.err
          /\ ret'.err = NoError =>
               /\ DB' = calls'.connect
               /\ IF TableCreate
                    THEN /\ execs'.createOk = execs.createOk + 1
                         /\ IsCreateTable(stmt'.text) /\ stmt'.err = NoError
                         /\ stmt'.handle = DB'
                    ELSE execs' = execs /\ stmt' = stmt
          /\ execs'.insert = execs.insert]_vars

\* C9 witness: with auto-create, a CREATE TABLE failed and left no handle, a
\* later one succeeded, and an INSERT was then executed
C9_Witness ==
  /\ TableCreate
  /\ execs.create = 2 /\ execs.createOk = 1
  /\ execs.insertOk = 1

====
